---------------------------- MODULE Spec2Model ----------------------------
(***************************************************************************)
(* A model of the graph search task of vowpalwabbit/search_graph.cc: the   *)
(* per-episode setup (graph construction, validation, breadth-first        *)
(* order), the run (alternating passes, neighbour-feature augmentation,    *)
(* prediction, confusion matrix) and the macro-F1 loss.                    *)
(*                                                                         *)
(* Node ids, edge example ids and traversal positions keep the code's      *)
(* 0-based values; TLA+ sequences are 1-based, so ec[i] of the code is     *)
(* ec[i+1] here (operator Ec).  Floats that only ever hold small whole     *)
(* numbers (counters, sums of squares of whole feature values) are         *)
(* integers; the quotients of macro_f are exact fractions <<num, den>>.    *)
(***************************************************************************)
EXTENDS Integers, Sequences, FiniteSets, TLC

(***************************************************************************)
(* Bounds of the model.                                                    *)
(***************************************************************************)
MaxNodes == 3      \* node records of an episode: 0..MaxNodes
MaxEdges == 2      \* edge records of an episode: 0..MaxEdges
MaxLoops == 2      \* configured --search_graph_num_loops: 0..MaxLoops
MaxCell  == 2      \* largest cell of a confusion matrix handed to macro_f
MaxRuns  == 2      \* calls of run on one episode
MaxEpisodes == 3   \* episodes handed to one task instance

(***************************************************************************)
(* Program constants.                                                      *)
(***************************************************************************)
K == 2                      \* task_data::K, the number of labels
HashStep == 348919043       \* the per-label bucket stride of the hashing rule
multiplier == 2             \* task_data::multiplier = wpp << stride_shift
mask == 63                  \* task_data::mask = weight_mask (all-ones low bits)
neighbor_namespace == "neighbor"
node_namespace == "n"       \* the namespace the node lines carry ("|n ...")

VARIABLES
  \* the options given on the command line (po::variables_map vm)
  vm,
  \* task configuration (initialize)
  num_loops, use_structure, separate_learners, pairs,
  \* what initialize registered with the host through set_num_learners
  num_learners,
  \* the episode handed to setup/run/takedown: vector<example*> ec
  ec,
  \* per-example data of task_data
  N, E, adj, bfs, pred,
  \* persistent data of task_data
  confusion_matrix, true_counts, true_counts_total,
  \* the host's view
  phase,        \* "loaded" | "ready" | "running" | "done" | "down" | "fatal" | "undefined"
  loss,         \* what this run handed to sch.loss: << >> so far, << f >> once reported
  \* position inside run()
  runs, loop, n_id, pc, add_features,
  \* what the predictor of the current step was given, and the predictions requested
  conds, learner_id, visited,
  \* per node, what P.predict() last returned in this run and in which pass:
  \* << >> or << pass, label >>
  predicted,
  \* the episodes handed to this task instance so far, and what the host saw of the
  \* first of them: << >>, or after its setup its graph, with its last run's outcome
  \* added when the episode is over
  episodes, first

vars == << vm, num_loops, use_structure, separate_learners, pairs, num_learners, ec, N, E, adj, bfs,
           pred, confusion_matrix, true_counts, true_counts_total, phase, loss,
           runs, loop, n_id, pc, add_features, conds, learner_id, visited, predicted,
           episodes, first >>

(***************************************************************************)
(* Examples.  A record carries its cost-sensitive label (costs: the        *)
(* class_index of each cost), its own features, and, for the fields that   *)
(* add_edge_features/del_edge_features touch, the neighbour namespace, the *)
(* list of active namespaces and the two running totals.                   *)
(***************************************************************************)
Ec(e, i) == e[i + 1]

Last(s) == s[Len(s)]

example_is_edge(x) == Len(x.costs) > 1

SumSq(fs) ==
  LET RECURSIVE go(_)
      go(j) == IF j > Len(fs) THEN 0 ELSE fs[j].x * fs[j].x + go(j + 1)
  IN go(1)

Example(costs, feats) ==
  [ costs             |-> costs,
    feats             |-> feats,             \* atomics[own namespace]
    nbr               |-> << >>,             \* atomics[neighbor_namespace]
    nbr_sum_feat_sq   |-> 0,                 \* sum_feat_sq[neighbor_namespace]
    indices           |-> << node_namespace >>,
    num_features      |-> Len(feats),
    total_sum_feat_sq |-> SumSq(feats) ]


(***************************************************************************)
(* setup, first loop (lines 161-173): count nodes and edges, accumulate    *)
(* the label priors; a node after an edge throws, leaving the counters as  *)
(* they were at the throw.                                                 *)
(***************************************************************************)
\* the scan without the check of line 167
RECURSIVE setup_scan_any_order(_, _, _)
setup_scan_any_order(e, i, d) ==
  IF i >= Len(e) THEN d
  ELSE IF example_is_edge(Ec(e, i)) THEN setup_scan_any_order(e, i + 1, [d EXCEPT !.E = @ + 1])
  ELSE LET c == Ec(e, i).costs
           counted == IF Len(c) > 0
                      THEN [d EXCEPT !.true_counts[c[1]] = @ + 1,
                                     !.true_counts_total = @ + 1]
                      ELSE d
       IN setup_scan_any_order(e, i + 1, [counted EXCEPT !.N = @ + 1])

RECURSIVE setup_scan(_, _, _)
setup_scan(e, i, d) ==
  IF i >= Len(e) THEN d
  ELSE IF example_is_edge(Ec(e, i)) THEN setup_scan(e, i + 1, [d EXCEPT !.E = @ + 1])
  ELSE IF d.E > 0 THEN [d EXCEPT !.thrown = TRUE]
  ELSE LET c == Ec(e, i).costs
           counted == IF Len(c) > 0
                      THEN [d EXCEPT !.true_counts[c[1]] = @ + 1,
                                     !.true_counts_total = @ + 1]
                      ELSE d
       IN setup_scan(e, i + 1, [counted EXCEPT !.N = @ + 1])

(***************************************************************************)
(* setup, lines 186-190: the adjacency entries of one edge example i.      *)
(* "don't allow dups": i is appended unless it is already the last entry.  *)
(***************************************************************************)
\* lines 186-190 without the test of line 188
RECURSIVE push_edge_no_dedupe(_, _, _, _)
push_edge_no_dedupe(a, i, costs, n) ==
  IF n > Len(costs) THEN a
  ELSE push_edge_no_dedupe([a EXCEPT ![costs[n] - 1] = Append(@, i)], i, costs, n + 1)

RECURSIVE push_edge(_, _, _, _)
push_edge(a, i, costs, n) ==
  IF n > Len(costs) THEN a
  ELSE LET nn == costs[n] - 1
       IN push_edge(IF a[nn] = << >> \/ Last(a[nn]) # i
                    THEN [a EXCEPT ![nn] = Append(@, i)]
                    ELSE a,
                    i, costs, n + 1)

(***************************************************************************)
(* setup, lines 177-191: for every edge example, first check every         *)
(* endpoint against N (throw), then index adj with class_index - 1.  An    *)
(* endpoint 0 is not rejected and indexes adj[(size_t)-1]: undefined.      *)
(***************************************************************************)
RECURSIVE build_adj(_, _, _, _)
build_adj(e, n, i, a) ==
  IF i >= Len(e) THEN [adj |-> a, outcome |-> "ok"]
  ELSE LET costs == Ec(e, i).costs
       IN IF \E j \in 1..Len(costs) : costs[j] > n
          THEN [adj |-> a, outcome |-> "thrown"]
          ELSE IF \E j \in 1..Len(costs) : costs[j] = 0
          THEN [adj |-> a, outcome |-> "undefined"]
          ELSE build_adj(e, n, i + 1, push_edge(a, i, costs, 1))

(***************************************************************************)
(* run_bfs (lines 118-150) on n >= 1 nodes: the state of the loops is the  *)
(* order built so far, the touched nodes and the read position i.          *)
(***************************************************************************)
RECURSIVE bfs_costs(_, _, _)
bfs_costs(s, costs, j) ==              \* lines 131-137
  IF j > Len(costs) THEN s
  ELSE LET m == costs[j] - 1
       IN bfs_costs(IF m \notin s.touched
                    THEN [s EXCEPT !.bfs = Append(@, m), !.touched = @ \cup {m}]
                    ELSE s,
                    costs, j + 1)

RECURSIVE bfs_edges(_, _, _, _)
bfs_edges(s, e, ids, k) ==             \* line 130
  IF k > Len(ids) THEN s
  ELSE bfs_edges(bfs_costs(s, Ec(e, ids[k]).costs, 1), e, ids, k + 1)

RECURSIVE bfs_frontier(_, _, _)
bfs_frontier(s, e, a) ==               \* lines 128-139
  IF s.i >= Len(s.bfs) THEN s
  ELSE bfs_frontier([bfs_edges(s, e, a[Ec(s.bfs, s.i)], 1) EXCEPT !.i = @ + 1], e, a)

\* run_bfs without the re-seeding of lines 141-148: one frontier only
bfs_outer_one_component(s, e, a, n) == bfs_frontier(s, e, a)

\* run_bfs seeding the next component with the highest untouched node
RECURSIVE bfs_outer_seed_highest(_, _, _, _)
bfs_outer_seed_highest(s, e, a, n) ==
  IF Len(s.bfs) >= n THEN s
  ELSE LET t == bfs_frontier(s, e, a)
       IN IF Len(t.bfs) < n
          THEN LET seed == CHOOSE x \in 0..(n - 1) :
                             /\ x \notin t.touched
                             /\ \A y \in 0..(n - 1) : y \notin t.touched => x >= y
               IN bfs_outer_seed_highest([t EXCEPT !.bfs = Append(@, seed),
                                                   !.touched = @ \cup {seed}], e, a, n)
          ELSE bfs_outer_seed_highest(t, e, a, n)

RECURSIVE bfs_outer(_, _, _, _)
bfs_outer(s, e, a, n) ==               \* lines 127-149
  IF Len(s.bfs) >= n THEN s
  ELSE LET t == bfs_frontier(s, e, a)
       IN IF Len(t.bfs) < n
          THEN LET seed == CHOOSE x \in 0..(n - 1) :
                             /\ x \notin t.touched
                             /\ \A y \in 0..(n - 1) : y \notin t.touched => x <= y
               IN bfs_outer([t EXCEPT !.bfs = Append(@, seed),
                                      !.touched = @ \cup {seed}], e, a, n)
          ELSE bfs_outer(t, e, a, n)

run_bfs(e, a, n) ==
  bfs_outer([bfs |-> << 0 >>, touched |-> {0}, i |-> 0], e, a, n).bfs


(***************************************************************************)
(* The hashing rule of lines 216 and 229.  The code computes in size_t,    *)
(* casts to uint32_t and masks; mask is all-ones low bits (mask + 1        *)
(* divides 2^32), so the result is the product modulo mask + 1.            *)
(***************************************************************************)
bucket(fx, k) == (((fx \div multiplier) + HashStep * k) * multiplier) % (mask + 1)

aligned(fx) == ((fx \div multiplier) * multiplier) = fx    \* lines 209, 225

(***************************************************************************)
(* add_edge_features_single_fn (lines 223-233) and                         *)
(* add_edge_features_group_fn (lines 207-221) on one edge feature: the     *)
(* features pushed onto the node's neighbour namespace.                    *)
(***************************************************************************)
add_edge_features_single_fn(np, f) ==
  << [x |-> f.x, weight_index |-> bucket(f.weight_index, np[0])] >>

\* the group callback pushing the edge's value unweighted
RECURSIVE add_edge_features_group_fn_unweighted(_, _, _)
add_edge_features_group_fn_unweighted(np, f, k) ==
  IF k > K THEN << >>
  ELSE (IF np[k] = 0 THEN << >>
        ELSE << [x |-> f.x, weight_index |-> bucket(f.weight_index, k)] >>)
       \o add_edge_features_group_fn_unweighted(np, f, k + 1)

RECURSIVE add_edge_features_group_fn_from(_, _, _)
add_edge_features_group_fn_from(np, f, k) ==
  IF k > K THEN << >>
  ELSE (IF np[k] = 0 THEN << >>
        ELSE << [x |-> f.x * np[k], weight_index |-> bucket(f.weight_index, k)] >>)
       \o add_edge_features_group_fn_from(np, f, k + 1)

add_edge_features_group_fn(np, f) == add_edge_features_group_fn_from(np, f, 0)

(***************************************************************************)
(* add_edge_features, lines 239-256: the histogram of one incident edge i  *)
(* seen from node n: neighbor_predictions, pred_total and last_pred.       *)
(***************************************************************************)
RECURSIVE neighbor_histogram(_, _, _, _, _)
neighbor_histogram(h, costs, j, n, p) ==
  IF j > Len(costs) THEN h
  ELSE LET m == costs[j] - 1
       IN neighbor_histogram(
            IF m = n THEN h
            ELSE [h EXCEPT !.neighbor_predictions[p[m] - 1] = @ + 1,
                           !.pred_total = @ + 1,
                           !.last_pred = p[m] - 1],
            costs, j + 1, n, p)

edge_histogram(costs, n, p, structure) ==
  LET zero == [neighbor_predictions |-> [k \in 0..K |-> 0], pred_total |-> 0, last_pred |-> 0]
  IN IF structure
     THEN neighbor_histogram(zero, costs, 1, n, p)
     ELSE [zero EXCEPT !.neighbor_predictions[0] = 1, !.pred_total = 1]

(***************************************************************************)
(* add_edge_features, lines 258-265: GD::foreach_feature over the edge's   *)
(* features with the single or the group callback.  A feature whose index  *)
(* is not a multiple of multiplier throws ("eek") from inside the          *)
(* callback: thrown is set and what was pushed before stays pushed.        *)
(***************************************************************************)
RECURSIVE foreach_feature(_, _, _, _)
foreach_feature(x, feats, j, h) ==
  IF j > Len(feats) \/ x.thrown THEN x
  ELSE IF ~aligned(feats[j].weight_index) THEN [x EXCEPT !.thrown = TRUE]
  ELSE LET new == IF h.pred_total <= 1
                  THEN add_edge_features_single_fn(
                         [h.neighbor_predictions EXCEPT ![0] = h.last_pred], feats[j])
                  ELSE add_edge_features_group_fn(h.neighbor_predictions, feats[j])
       IN foreach_feature([x EXCEPT !.nbr = @ \o new,
                                    !.nbr_sum_feat_sq = @ + SumSq(new)],
                          feats, j + 1, h)

RECURSIVE add_edges(_, _, _, _, _, _, _)
add_edges(x, e, ids, k, n, p, structure) ==      \* the loop of line 238
  IF k > Len(ids) \/ x.thrown THEN x
  ELSE LET edge == Ec(e, ids[k])
           h == edge_histogram(edge.costs, n, p, structure)
       IN add_edges(IF h.pred_total = 0 THEN x
                    ELSE foreach_feature(x, edge.feats, 1, h),
                    e, ids, k + 1, n, p, structure)

atomics_size(x, ns) == IF ns = neighbor_namespace THEN Len(x.nbr) ELSE Len(x.feats)

sum_feat_sq(x, ns) == IF ns = neighbor_namespace THEN x.nbr_sum_feat_sq ELSE SumSq(x.feats)

RECURSIVE add_pairs(_, _, _)
add_pairs(x, ps, j) ==                           \* lines 272-279
  IF j > Len(ps) THEN x
  ELSE LET i0 == ps[j][1]
           i1 == ps[j][2]
       IN add_pairs(IF i0 = neighbor_namespace \/ i1 = neighbor_namespace
                    THEN [x EXCEPT !.num_features = @ + atomics_size(x, i0) * atomics_size(x, i1),
                                   !.total_sum_feat_sq = @ + sum_feat_sq(x, i0) * sum_feat_sq(x, i1)]
                    ELSE x,
                    ps, j + 1)

(***************************************************************************)
(* add_edge_features (lines 235-281) on node n: the node's example after   *)
(* the call, with thrown set when a callback threw.                        *)
(***************************************************************************)
add_edge_features(e, a, n, p, structure, ps) ==
  LET x0 == [thrown |-> FALSE] @@ Ec(e, n)
      x1 == add_edges(x0, e, a[n], 1, n, p, structure)
  IN IF x1.thrown THEN x1
     ELSE add_pairs([x1 EXCEPT !.indices = Append(@, neighbor_namespace),
                               !.total_sum_feat_sq = @ + x1.nbr_sum_feat_sq,
                               !.num_features = @ + Len(x1.nbr)],
                    ps, 1)

(***************************************************************************)
(* del_edge_features (lines 283-289).                                      *)
(***************************************************************************)
del_edge_features(x) ==
  [x EXCEPT !.indices = SubSeq(@, 1, Len(@) - 1),
            !.total_sum_feat_sq = @ - x.nbr_sum_feat_sq,
            !.num_features = @ - Len(x.nbr),
            !.nbr = << >>,
            !.nbr_sum_feat_sq = 0]


(***************************************************************************)
(* Exact fractions <<num, den>>, den > 0, in lowest terms: the values of   *)
(* the float quotients of macro_f without their rounding.                  *)
(***************************************************************************)
RECURSIVE Gcd(_, _)
Gcd(a, b) == IF b = 0 THEN a ELSE Gcd(b, a % b)

Frac(a, b) == LET g == Gcd(IF a < 0 THEN -a ELSE a, b) IN << a \div g, b \div g >>

FAdd(p, q) == Frac(p[1] * q[2] + q[1] * p[2], p[2] * q[2])

FMul(p, q) == Frac(p[1] * q[1], p[2] * q[2])

FDiv(p, q) == Frac(p[1] * q[2], p[2] * q[1])        \* q > 0

FLeq(p, q) == p[1] * q[2] <= q[1] * p[2]

(***************************************************************************)
(* macro_f (lines 291-313).  confusion_matrix is the flat array of         *)
(* (K+1)*(K+1) counters addressed through IDX.  0/0 is NaN.                *)
(***************************************************************************)
NaN == << 0, 0 >>

IDX(i, j) == i * (K + 1) + j

RECURSIVE sum_row(_, _, _)
sum_row(cm, k, j) == IF j > K THEN 0 ELSE cm[IDX(k, j)] + sum_row(cm, k, j + 1)   \* trueC

RECURSIVE sum_col(_, _, _)
sum_col(cm, k, j) == IF j > K THEN 0 ELSE cm[IDX(j, k)] + sum_col(cm, k, j + 1)   \* predC

\* macro_f without the "continue" of line 303: every label is averaged over
RECURSIVE macro_f_loop_all_labels(_, _, _)
macro_f_loop_all_labels(cm, k, acc) ==
  IF k > K THEN acc
  ELSE LET trueC == sum_row(cm, k, 1)
           predC == sum_col(cm, k, 1)
           correctC == cm[IDX(k, k)]
           counted == [acc EXCEPT !.count_f1 = @ + 1]
       IN IF correctC > 0
          THEN LET pre == Frac(correctC, predC)
                   rec == Frac(correctC, trueC)
                   f1  == FDiv(FMul(<< 2, 1 >>, FMul(pre, rec)), FAdd(pre, rec))
               IN macro_f_loop_all_labels(cm, k + 1,
                                          [counted EXCEPT !.total_f1 = FAdd(@, f1)])
          ELSE macro_f_loop_all_labels(cm, k + 1, counted)

RECURSIVE macro_f_loop(_, _, _)
macro_f_loop(cm, k, acc) ==
  IF k > K THEN acc
  ELSE LET trueC == sum_row(cm, k, 1)
           predC == sum_col(cm, k, 1)
           correctC == cm[IDX(k, k)]
       IN IF trueC = 0 THEN macro_f_loop(cm, k + 1, acc)
          ELSE LET counted == [acc EXCEPT !.count_f1 = @ + 1]
               IN IF correctC > 0
                  THEN LET pre == Frac(correctC, predC)
                           rec == Frac(correctC, trueC)
                           f1  == FDiv(FMul(<< 2, 1 >>, FMul(pre, rec)), FAdd(pre, rec))
                       IN macro_f_loop(cm, k + 1,
                                       [counted EXCEPT !.total_f1 = FAdd(@, f1)])
                  ELSE macro_f_loop(cm, k + 1, counted)

macro_f(cm) ==
  LET r == macro_f_loop(cm, 1, [total_f1 |-> << 0, 1 >>, count_f1 |-> 0])
  IN IF r.count_f1 = 0 THEN NaN ELSE FDiv(r.total_f1, << r.count_f1, 1 >>)

reported_loss(cm) ==                                \* line 367
  LET f == macro_f(cm) IN IF f = NaN THEN NaN ELSE FAdd(<< 1, 1 >>, << -f[1], f[2] >>)


(***************************************************************************)
(* initialize (lines 77-106): the configuration from the three options.    *)
(* opt_loops is "unset" or the value given.  num_learners is what line 101 *)
(* hands to set_num_learners, << >> when it is not called.                 *)
(***************************************************************************)
\* initialize without line 91
initialize_no_floor(opt_loops, opt_no_structure, opt_separate) ==
  LET given == IF opt_loops = << >> THEN 2 ELSE opt_loops[1]
  IN [ num_loops         |-> given,
       use_structure     |-> ~opt_no_structure,
       separate_learners |-> opt_separate,
       num_learners      |-> IF opt_separate THEN << given >> ELSE << >> ]

initialize(opt_loops, opt_no_structure, opt_separate) ==
  LET given == IF opt_loops = << >> THEN 2 ELSE opt_loops[1]
      loops == IF given <= 1 THEN 1 ELSE given
      separate == IF given <= 1 THEN FALSE ELSE opt_separate
  IN [ num_loops         |-> loops,
       use_structure     |-> ~opt_no_structure,
       separate_learners |-> separate,
       num_learners      |-> IF separate THEN << loops >> ELSE << >> ]

zero_confusion == [c \in 0..((K + 1) * (K + 1) - 1) |-> 0]

(***************************************************************************)
(* setup (lines 152-198).                                                  *)
(***************************************************************************)
SetupScan ==
  setup_scan(ec, 0, [N |-> 0, E |-> 0, true_counts |-> true_counts,
                     true_counts_total |-> true_counts_total, thrown |-> FALSE])

SetupAdj(d) == build_adj(ec, d.N, d.N, [n \in 0..(d.N - 1) |-> << >>])

SetupOutcome ==
  LET d == SetupScan
  IN IF d.thrown \/ (d.N = 0 /\ d.E > 0) THEN "thrown"
     ELSE IF SetupAdj(d).outcome # "ok" THEN SetupAdj(d).outcome
     ELSE IF d.N = 0 THEN "undefined"      \* touched[0] = true on an empty vector
     ELSE "ok"

\* the scan and, unless it threw, the adjacency: common to every outcome
SetupGraph ==
  LET d == SetupScan
  IN /\ N' = d.N
     /\ E' = d.E
     /\ true_counts' = d.true_counts
     /\ true_counts_total' = d.true_counts_total
     /\ adj' = IF d.thrown \/ (d.N = 0 /\ d.E > 0) THEN adj ELSE SetupAdj(d).adj

NotRunning ==
  UNCHANGED << vm, num_loops, use_structure, separate_learners, pairs, num_learners, ec,
               confusion_matrix, loss, runs, loop, n_id, pc, add_features, conds, learner_id,
               visited, predicted, episodes >>

Setup ==
  /\ phase = "loaded"
  /\ SetupOutcome = "ok"
  /\ SetupGraph
  /\ bfs' = run_bfs(ec, adj', N')
  /\ pred' = [n \in 0..(N' - 1) |-> K + 1]
  /\ phase' = "ready"
  /\ first' = IF episodes = 1
              THEN [ec |-> ec, N |-> N', E |-> E', adj |-> adj', bfs |-> bfs',
                    pred |-> pred', run |-> << >>]
              ELSE first
  /\ NotRunning

SetupThrows ==
  /\ phase = "loaded"
  /\ SetupOutcome = "thrown"
  /\ SetupGraph
  /\ phase' = "fatal"
  /\ UNCHANGED << bfs, pred, first >>
  /\ NotRunning

\* adj[(size_t)-1] (an endpoint 0) or touched[0] of an empty vector (N = 0):
\* the build may stop here, or anything may follow
SetupUndefined ==
  /\ phase = "loaded"
  /\ SetupOutcome = "undefined"
  /\ SetupGraph
  /\ phase' = "undefined"
  /\ UNCHANGED << bfs, pred, first >>
  /\ NotRunning

\* N = 0 and the write through touched[0] did no harm: bfs holds node 0
SetupEmpty ==
  /\ phase = "loaded"
  /\ SetupOutcome = "undefined"
  /\ SetupScan.N = 0
  /\ SetupGraph
  /\ bfs' = << 0 >>
  /\ pred' = << >>
  /\ phase' = "ready"
  /\ UNCHANGED first
  /\ NotRunning

(***************************************************************************)
(* takedown (lines 200-205).                                               *)
(***************************************************************************)
Takedown ==
  /\ phase \in {"ready", "done"}
  /\ bfs' = << >>
  /\ pred' = << >>
  /\ adj' = << >>
  /\ phase' = "down"
  /\ UNCHANGED << N, E, true_counts, true_counts_total, first >>
  /\ NotRunning


(***************************************************************************)
(* run (lines 315-372), one action per step of its loops.                  *)
(***************************************************************************)
CurNode == Ec(bfs, n_id)                         \* line 327

strip(x) == [f \in DOMAIN x \ {"thrown"} |-> x[f]]

\* the loop control without line 325: every pass goes outward
Advance_always_forward ==
  IF n_id + 1 # N
  THEN /\ n_id' = n_id + 1
       /\ loop' = loop
       /\ pc' = "top"
  ELSE /\ loop' = loop + 1
       /\ n_id' = 0
       /\ pc' = IF loop + 1 < num_loops THEN "top" ELSE "tail"

\* the loop control of lines 323-326 after the visit at (loop, n_id)
Advance ==
  LET odd  == loop % 2 = 1
      next == IF odd THEN n_id - 1 ELSE n_id + 1
      end  == IF odd THEN -1 ELSE N
  IN IF next # end
     THEN /\ n_id' = next
          /\ loop' = loop
          /\ pc' = "top"
     ELSE /\ loop' = loop + 1
          /\ n_id' = IF (loop + 1) % 2 = 1 THEN N - 1 ELSE 0
          /\ pc' = IF loop + 1 < num_loops THEN "top" ELSE "tail"

\* lines 319-321 and the entry into the loops
RunStart_pred_kept ==
  /\ phase \in {"ready", "done"}
  /\ runs < MaxRuns
  /\ runs' = runs + 1
  /\ confusion_matrix' = zero_confusion
  /\ loop' = IF N = 0 THEN num_loops ELSE 0
  /\ n_id' = 0
  /\ pc' = IF N = 0 THEN "tail" ELSE "top"
  /\ phase' = "running"
  /\ add_features' = FALSE
  /\ conds' = << >>
  /\ learner_id' = -1
  /\ visited' = << >>
  /\ predicted' = [n \in 0..(N - 1) |-> << >>]
  /\ loss' = << >>
  /\ UNCHANGED << vm, num_loops, use_structure, separate_learners, pairs, num_learners,
                  ec, N, E, adj, bfs, pred, true_counts, true_counts_total, episodes, first >>

RunStart ==
  /\ phase \in {"ready", "done"}
  /\ runs < MaxRuns
  /\ runs' = runs + 1
  /\ confusion_matrix' = zero_confusion
  /\ pred' = [n \in 0..(N - 1) |-> K + 1]
  /\ loop' = IF N = 0 THEN num_loops ELSE 0
  /\ n_id' = 0
  /\ pc' = IF N = 0 THEN "tail" ELSE "top"
  /\ phase' = "running"
  /\ add_features' = FALSE
  /\ conds' = << >>
  /\ learner_id' = -1
  /\ visited' = << >>
  /\ predicted' = [n \in 0..(N - 1) |-> << >>]
  /\ loss' = << >>
  /\ UNCHANGED << vm, num_loops, use_structure, separate_learners, pairs, num_learners,
                  ec, N, E, adj, bfs, true_counts, true_counts_total, episodes, first >>

RunFrame ==
  UNCHANGED << vm, num_loops, use_structure, separate_learners, pairs, num_learners,
               N, E, adj, bfs, true_counts, true_counts_total, runs, episodes, first >>

\* lines 327-333: predictNeedsExample() is the host's answer, any boolean
NodeBegin ==
  /\ phase = "running"
  /\ pc = "top"
  /\ \E need \in BOOLEAN :
       LET x == add_edge_features(ec, adj, CurNode, pred, use_structure, pairs)
       IN /\ add_features' = need
          /\ need => ~x.thrown
          /\ ec' = IF need THEN [ec EXCEPT ![CurNode + 1] = strip(x)] ELSE ec
  /\ pc' = "predict"
  /\ UNCHANGED << phase, pred, predicted, confusion_matrix, loss, loop, n_id, conds, learner_id, visited >>
  /\ RunFrame

\* the "eek" of lines 209 and 225 thrown out of add_edge_features
NodeBeginThrows ==
  /\ phase = "running"
  /\ pc = "top"
  /\ LET x == add_edge_features(ec, adj, CurNode, pred, use_structure, pairs)
     IN /\ x.thrown
        /\ ec' = [ec EXCEPT ![CurNode + 1] = strip(x)]
  /\ add_features' = TRUE
  /\ phase' = "fatal"
  /\ UNCHANGED << pc, pred, predicted, confusion_matrix, loss, loop, n_id, conds, learner_id, visited >>
  /\ RunFrame

\* lines 350-356: the conditioning references handed to the predictor of node n
RECURSIVE condition_costs(_, _, _)
condition_costs(costs, j, n) ==
  IF j > Len(costs) THEN << >>
  ELSE (IF costs[j] - 1 = n THEN << >> ELSE << costs[j] >>)      \* tag m + 1
       \o condition_costs(costs, j + 1, n)

RECURSIVE conditioning(_, _, _, _)
conditioning(e, a, n, i) ==
  IF i >= Len(a[n]) THEN << >>
  ELSE condition_costs(Ec(e, i).costs, 1, n) \o conditioning(e, a, n, i + 1)

\* lines 334-359 without the assignment of line 359: the prediction is dropped
Predict_not_stored ==
  /\ phase = "running"
  /\ pc = "predict"
  /\ learner_id' = IF separate_learners THEN loop ELSE -1
  /\ conds' = conditioning(ec, adj, CurNode, 0)
  /\ \E k \in 1..K : /\ pred' = pred
                      /\ predicted' = [predicted EXCEPT ![CurNode] = << loop, k >>]
  /\ visited' = Append(visited, << loop, CurNode >>)
  /\ pc' = "revert"
  /\ UNCHANGED << phase, ec, confusion_matrix, loss, loop, n_id, add_features >>
  /\ RunFrame

\* lines 334-359: the request and the prediction, any label of 1..K
Predict ==
  /\ phase = "running"
  /\ pc = "predict"
  /\ learner_id' = IF separate_learners THEN loop ELSE -1
  /\ conds' = conditioning(ec, adj, CurNode, 0)
  /\ \E k \in 1..K : /\ pred' = [pred EXCEPT ![CurNode] = k]
                      /\ predicted' = [predicted EXCEPT ![CurNode] = << loop, k >>]
  /\ visited' = Append(visited, << loop, CurNode >>)
  /\ pc' = "revert"
  /\ UNCHANGED << phase, ec, confusion_matrix, loss, loop, n_id, add_features >>
  /\ RunFrame

\* the step of the loops without line 361
NodeEnd_no_revert ==
  /\ phase = "running"
  /\ pc = "revert"
  /\ ec' = ec
  /\ add_features' = FALSE
  /\ Advance
  /\ UNCHANGED << phase, pred, predicted, confusion_matrix, loss, conds, learner_id, visited >>
  /\ RunFrame

\* line 361 and the step of the loops
NodeEnd ==
  /\ phase = "running"
  /\ pc = "revert"
  /\ ec' = IF add_features
           THEN [ec EXCEPT ![CurNode + 1] = del_edge_features(@)]
           ELSE ec
  /\ add_features' = FALSE
  /\ Advance
  /\ UNCHANGED << phase, pred, predicted, confusion_matrix, loss, conds, learner_id, visited >>
  /\ RunFrame

\* lines 365-366: costs[0] of every node; g[n] is what the read finds for a
\* node that carries no cost
RECURSIVE count_confusion(_, _, _, _, _, _)
count_confusion(cm, e, nodes, p, g, n) ==
  IF n >= nodes THEN cm
  ELSE LET c == Ec(e, n).costs
           class_index == IF Len(c) > 0 THEN c[1] ELSE g[n]
       IN count_confusion([cm EXCEPT ![IDX(class_index, p[n])] = @ + 1],
                          e, nodes, p, g, n + 1)

Unlabeled == { n \in 0..(N - 1) : Ec(ec, n).costs = << >> }

\* lines 365-372, the read of an absent cost finding a class index of 0..K
RunEnd ==
  /\ phase = "running"
  /\ pc = "tail"
  /\ \E g \in [Unlabeled -> 0..K] :
       confusion_matrix' = count_confusion(confusion_matrix, ec, N, pred, g, 0)
  /\ loss' = << reported_loss(confusion_matrix') >>
  /\ phase' = "done"
  /\ UNCHANGED << ec, pred, predicted, loop, n_id, pc, add_features, conds, learner_id, visited >>
  /\ RunFrame

\* the same read faulting, or finding an index outside the matrix
RunEndUndefined ==
  /\ phase = "running"
  /\ pc = "tail"
  /\ Unlabeled # {}
  /\ phase' = "undefined"
  /\ UNCHANGED << ec, pred, predicted, confusion_matrix, loss, loop, n_id, pc, add_features, conds,
                  learner_id, visited >>
  /\ RunFrame


(***************************************************************************)
(* The inputs: the options given to initialize, the interaction pairs of   *)
(* the model (all.pairs) and the episode.                                  *)
(***************************************************************************)
SeqsUpTo(S, n) == UNION { [1..m -> S] : m \in 0..n }

NodeFeats == << [x |-> 1, weight_index |-> 0] >>

EdgeFeats == << [x |-> 1, weight_index |-> 2], [x |-> 3, weight_index |-> 6] >>

\* an edge whose second feature is not a multiple of multiplier
MisalignedFeats == << [x |-> 1, weight_index |-> 2], [x |-> 3, weight_index |-> 5] >>

Options == { << >> } \cup { << l >> : l \in 0..MaxLoops }

Configs == { initialize(o, ns, sl) : o \in Options, ns \in BOOLEAN, sl \in BOOLEAN }

DefaultConfig == initialize(<< >>, FALSE, FALSE)

\* the command lines: the three options given or not
CommandLines ==
  { [loops |-> o, no_structure |-> ns, separate |-> sl] :
      o \in Options, ns \in BOOLEAN, sl \in BOOLEAN }

DefaultCommandLine == [loops |-> << >>, no_structure |-> FALSE, separate |-> FALSE]

\* one command line for each configuration initialize can produce
PlainCommandLines ==
  { c \in CommandLines : /\ c.loops # << >>
                         /\ c.loops[1] >= 1
                         /\ (c.loops[1] = 1 => ~c.separate) }

\* initialize (lines 85-101) run on a command line
Configured(c) ==
  LET d == initialize(c.loops, c.no_structure, c.separate)
  IN /\ vm = c
     /\ num_loops = d.num_loops
     /\ use_structure = d.use_structure
     /\ separate_learners = d.separate_learners
     /\ num_learners = d.num_learners

NoPairs == << >>

NeighborPairs == << << node_namespace, neighbor_namespace >> >>

Records(costs, feats) == [i \in 1..Len(costs) |-> Example(costs[i], feats)]

\* node records, edge records and the records after them
Episode(nodes, edges, feats, tail) ==
  Records(nodes, NodeFeats) \o Records(edges, feats) \o Records(tail, NodeFeats)

(***************************************************************************)
(* Labels of the node lines of an episode of n nodes: every node labeled   *)
(* (labels cycling through 1..K), or node 0 carrying no cost, or node 0    *)
(* carrying the class index 0.                                             *)
(***************************************************************************)
Labelings(n) ==
  LET cyc == [i \in 1..n |-> << 1 + ((i - 1) % K) >>]
  IN IF n = 0 THEN { << >> }
     ELSE { cyc, [cyc EXCEPT ![1] = << >>], [cyc EXCEPT ![1] = << 0 >>],
            [i \in 1..n |-> << 1 >>] }

(***************************************************************************)
(* The graphs that are run: for n nodes, no edge; a chain; one hyperedge   *)
(* over all nodes, listed backwards; an edge between the last two nodes    *)
(* beside an edge from node 1 to itself; an edge that lists a node twice;  *)
(* a pair edge beside a hyperedge over three nodes.                        *)
(***************************************************************************)
RunGraphs(n) ==
  { << >> } \cup
  (IF n < 2 THEN { << << 1, 1 >> >> }
   ELSE { [i \in 1..(n - 1) |-> << i, i + 1 >>],
          << [i \in 1..n |-> n + 1 - i] >>,
          << << n, n - 1 >>, << 1, 1 >> >>,
          << << 2, 1, 2 >>, << n, 1 >> >> }
        \cup (IF n < 3 THEN { } ELSE { << << 1, 2 >>, << 1, 2, 3 >> >> }))

\* episodes that setup does not accept, or that it indexes out of range
BadGraphs(n) ==
  { [edges |-> << << 1, n + 1 >> >>, tail |-> << >>],
    [edges |-> << << 1, 1 >> >>, tail |-> << << 1 >> >>],
    [edges |-> << << 0, 1 >> >>, tail |-> << >>],
    [edges |-> << << 0, 1 >>, << 1, n + 1 >> >>, tail |-> << >>] }

Scenarios ==
  LET sc(c, p, e) == [vm |-> c, pairs |-> p, ec |-> e]
      all(n) == { Episode(l, g, EdgeFeats, << >>) : l \in Labelings(n), g \in RunGraphs(n) }
      bad(n) == { Episode(l, g.edges, EdgeFeats, g.tail) : l \in Labelings(n), g \in BadGraphs(n) }
  IN UNION {
       \* every configuration on every graph
       { sc(c, NoPairs, e) : c \in PlainCommandLines,
                             e \in UNION { all(n) : n \in 1..MaxNodes } },
       \* the other command lines on the graphs of two labeled nodes
       { sc(c, NoPairs, Episode(<< << 1 >>, << 2 >> >>, g, EdgeFeats, << >>)) :
           c \in CommandLines \ PlainCommandLines, g \in RunGraphs(2) },
       \* the episodes setup stops at, and the empty episode
       { sc(DefaultCommandLine, NoPairs, e) : e \in UNION { bad(n) : n \in 0..MaxNodes } },
       { sc(DefaultCommandLine, NoPairs, << >>) },
       \* an interaction pair with the neighbour namespace
       { sc(DefaultCommandLine, NeighborPairs, e) : e \in all(2) },
       \* a misaligned edge feature
       { sc(DefaultCommandLine, NoPairs, Episode(<< << 1 >>, << 2 >> >>, << << 1, 2 >> >>,
                                            MisalignedFeats, << >>)) } }

Loaded ==
  /\ N = 0
  /\ E = 0
  /\ adj = << >>
  /\ bfs = << >>
  /\ pred = << >>
  /\ confusion_matrix = zero_confusion
  /\ true_counts = [k \in 0..K |-> 1]                \* line 99
  /\ true_counts_total = K + 1                       \* line 98
  /\ phase = "loaded"
  /\ loss = << >>
  /\ runs = 0
  /\ loop = 0
  /\ n_id = 0
  /\ pc = "top"
  /\ add_features = FALSE
  /\ conds = << >>
  /\ learner_id = -1
  /\ visited = << >>
  /\ predicted = << >>
  /\ episodes = 1
  /\ first = << >>

Init ==
  /\ \E s \in Scenarios :
       /\ Configured(s.vm)
       /\ pairs = s.pairs
       /\ ec = s.ec
  /\ Loaded

Next ==
  \/ Setup
  \/ SetupThrows
  \/ SetupUndefined
  \/ SetupEmpty
  \/ RunStart
  \/ NodeBegin
  \/ NodeBeginThrows
  \/ Predict
  \/ NodeEnd
  \/ RunEnd
  \/ RunEndUndefined
  \/ Takedown

Spec == Init /\ [][Next]_vars

(***************************************************************************)
(* setup alone, on every episode of up to MaxNodes node records followed   *)
(* by up to MaxEdges further records: edges of two endpoints a, b with     *)
(* a in 0..n+1 and b in 1..n, hyperedges a, b, c of 1..n with a < b < c   *)
(* or c = a (a node listed twice, not in consecutive positions), and       *)
(* possibly a node record as the last record.                              *)
(***************************************************************************)
EdgeTypes(n) ==
  { << a, b >> : a \in 0..(n + 1), b \in 1..n } \cup
  { t \in [1..3 -> 1..n] : t[1] < t[2] /\ (t[3] = t[1] \/ t[2] < t[3]) }

\* every node labeled, or node 0 carrying no cost
SetupLabelings(n) ==
  { l \in Labelings(n) : /\ \A i \in 2..n : l[i] = << 1 + ((i - 1) % K) >>
                         /\ n >= 1 => l[1] # << 0 >> }

InitSetup ==
  /\ Configured(DefaultCommandLine)
  /\ pairs = NoPairs
  /\ \E n \in 0..MaxNodes, m \in 0..MaxEdges :
       \E l \in SetupLabelings(n), g \in [1..m -> IF n = 0 THEN { << 1, 1 >> } ELSE EdgeTypes(n)] :
         \E t \in IF m < MaxEdges THEN { << >>, << << 1 >> >> } ELSE { << >> } :
           ec = Episode(l, g, EdgeFeats, t)
  /\ Loaded

NextSetup ==
  \/ Setup
  \/ SetupThrows
  \/ SetupUndefined
  \/ SetupEmpty

SpecSetup == InitSetup /\ [][NextSetup]_vars

(***************************************************************************)
(* macro_f alone (line 367): every confusion matrix with cells of 0..MaxCell*)
(* for the labels 1..K, and the cell [0][1] (a node of class index 0       *)
(* predicted 1) 0 or 1.                                                    *)
(***************************************************************************)
Matrices ==
  { cm \in [0..((K + 1) * (K + 1) - 1) -> 0..MaxCell] :
      \A i \in 0..K, j \in 0..K :
        (i = 0 \/ j = 0) => (cm[IDX(i, j)] = 0 \/ (i = 0 /\ j = 1 /\ cm[IDX(i, j)] = 1)) }

InitScore ==
  /\ Configured(DefaultCommandLine)
  /\ pairs = NoPairs
  /\ ec = << >>
  /\ N = 0
  /\ E = 0
  /\ adj = << >>
  /\ bfs = << >>
  /\ pred = << >>
  /\ confusion_matrix \in Matrices
  /\ true_counts = [k \in 0..K |-> 1]
  /\ true_counts_total = K + 1
  /\ phase = "scoring"
  /\ loss = << >>
  /\ runs = 1
  /\ loop = num_loops
  /\ n_id = 0
  /\ pc = "tail"
  /\ add_features = FALSE
  /\ conds = << >>
  /\ learner_id = -1
  /\ visited = << >>
  /\ predicted = << >>
  /\ episodes = 1
  /\ first = << >>

Score ==
  /\ phase = "scoring"
  /\ loss' = << reported_loss(confusion_matrix) >>
  /\ phase' = "done"
  /\ UNCHANGED << vm, num_loops, use_structure, separate_learners, pairs, num_learners,
                  ec, N, E, adj, bfs,
                  pred, confusion_matrix, true_counts, true_counts_total, runs, loop,
                  n_id, pc, add_features, conds, learner_id, visited, predicted,
                  episodes, first >>

SpecScore == InitScore /\ [][Score]_vars

(***************************************************************************)
(* One task instance over several episodes: the host hands the next        *)
(* episode after takedown, or after a setup that threw.  The task data     *)
(* (task_data, lines 48-73) is the same object throughout; what the model  *)
(* keeps of the host's view of the episode starts afresh.                  *)
(***************************************************************************)
EpisodePool ==
  { Episode(<< << 1 >>, << 2 >> >>, << << 1, 2 >> >>, EdgeFeats, << >>),
    Episode(<< << >>, << 2 >> >>, << << 1, 2 >> >>, EdgeFeats, << >>),
    Episode(<< << 1 >> >>, << >>, EdgeFeats, << >>),
    Episode(<< << 0 >> >>, << >>, EdgeFeats, << >>),
    Episode(<< << 2 >> >>, << << 1, 1 >> >>, EdgeFeats, << << 1 >> >>) }

\* the outcome of the last run of the episode that is over
LastRun ==
  [ pred             |-> [n \in DOMAIN predicted |-> predicted[n][2]],
    confusion_matrix |-> confusion_matrix,
    loss             |-> loss ]

EpisodeFrame ==
  /\ phase \in {"down", "fatal"}
  /\ episodes < MaxEpisodes
  /\ episodes' = episodes + 1
  /\ ec' \in EpisodePool
  /\ phase' = "loaded"
  /\ first' = IF episodes = 1 /\ first # << >> /\ phase = "down" /\ loss # << >>
              THEN [first EXCEPT !.run = << LastRun >>]
              ELSE first
  /\ runs' = 0
  /\ loop' = 0
  /\ n_id' = 0
  /\ pc' = "top"
  /\ add_features' = FALSE
  /\ conds' = << >>
  /\ learner_id' = -1
  /\ visited' = << >>
  /\ predicted' = << >>
  /\ loss' = << >>
  /\ UNCHANGED << vm, num_loops, use_structure, separate_learners, pairs, num_learners,
                  N, E, adj, bfs, pred, confusion_matrix >>

\* a task whose label priors start afresh with every episode
NextEpisode_priors_reset ==
  /\ EpisodeFrame
  /\ true_counts' = [k \in 0..K |-> 1]
  /\ true_counts_total' = K + 1

NextEpisode ==
  /\ EpisodeFrame
  /\ UNCHANGED << true_counts, true_counts_total >>

\* one pass, so that the final predictions are all the predictor answered
OnePass == [loops |-> << 1 >>, no_structure |-> FALSE, separate |-> FALSE]

InitTask ==
  /\ Configured(OnePass)
  /\ pairs = NoPairs
  /\ ec \in EpisodePool
  /\ Loaded

NextTask ==
  \/ Setup
  \/ SetupThrows
  \/ RunStart
  \/ NodeBegin
  \/ Predict
  \/ NodeEnd
  \/ RunEnd
  \/ RunEndUndefined
  \/ Takedown
  \/ NextEpisode

SpecTask == InitTask /\ [][NextTask]_vars

(***************************************************************************)
(*                              The claims                                 *)
(***************************************************************************)
Nodes == 0..(N - 1)

IsPermutation(b, n) ==
  /\ Len(b) = n
  /\ \A x \in 0..(n - 1) : Cardinality({ i \in 1..Len(b) : b[i] = x }) = 1

\* C1: after setup of an episode of N >= 1 nodes that passed validation, the
\* traversal order bfs has length N and holds every node index 0..N-1 exactly once.
C1_TraversalIsPermutation ==
  (phase = "ready" /\ N >= 1) => IsPermutation(bfs, N)

\* a disconnected graph with a hyperedge whose order is not 0, 1, 2, ...
C1_Witness ==
  /\ phase = "ready"
  /\ N >= 3
  /\ \E n \in Nodes : adj[n] = << >>
  /\ \E i \in N..(Len(ec) - 1) : Len(Ec(ec, i).costs) = 3
  /\ \E j \in 1..N : bfs[j] # j - 1

\* the nodes a run of num_loops passes asks predictions for, as << pass, node >>
RECURSIVE ExpectedVisits(_)
ExpectedVisits(i) ==
  IF i >= num_loops THEN << >>
  ELSE [j \in 1..N |-> << i, IF i % 2 = 0 THEN bfs[j] ELSE bfs[N + 1 - j] >>]
       \o ExpectedVisits(i + 1)

IsPrefix(s, t) == Len(s) <= Len(t) /\ \A i \in 1..Len(s) : s[i] = t[i]

\* C2: pass i asks for the nodes in traversal order when i is even and in the reverse
\* order when i is odd; each pass predicts every node once, num_loops * N predictions in all.
C2_PassesAlternate ==
  /\ phase \in {"running", "done"} => IsPrefix(visited, ExpectedVisits(0))
  /\ (phase = "done" \/ (phase = "running" /\ pc = "tail")) =>
       /\ visited = ExpectedVisits(0)
       /\ Len(visited) = num_loops * N

C2_Witness ==
  /\ phase = "done"
  /\ num_loops >= 2
  /\ N >= 3
  /\ \E j \in 1..N : bfs[j] # j - 1
  /\ visited[N + 1] = << 1, bfs[N] >>

Pristine(x) == x = Example(x.costs, x.feats)

\* C3: add_edge_features followed by del_edge_features leaves the node's example as
\* it was before (features of every namespace, active namespaces, num_features,
\* total_sum_feat_sq), whatever the neighbour predictions and the interaction pairs:
\* whenever no augmentation is in effect every node example is as setup found it.
C3_RevertRestoresExample ==
  ((phase = "running" /\ pc \in {"top", "tail"}) \/ phase = "done") =>
     \A n \in Nodes : Pristine(Ec(ec, n))

\* the references of the claim: one per endpoint m # n of every edge of adj[n], tag m + 1
ExpectedRefs(n) ==
  { r \in (1..Len(adj[n])) \X (1..3) :
      /\ r[2] <= Len(Ec(ec, adj[n][r[1]]).costs)
      /\ Ec(ec, adj[n][r[1]]).costs[r[2]] - 1 # n }

ExpectedTagCount(n, t) ==
  Cardinality({ r \in ExpectedRefs(n) : Ec(ec, adj[n][r[1]]).costs[r[2]] = t })

\* C4: the conditioning references handed to the predictor of node n are, for each
\* edge of adj[n], one reference (tag m + 1) per endpoint m # n of that edge, no more
\* and no fewer.
C4_ConditioningFollowsAdjacency ==
  (phase = "running" /\ pc = "revert") =>
     \A t \in 0..(N + 1) :
       Cardinality({ i \in 1..Len(conds) : conds[i] = t }) = ExpectedTagCount(CurNode, t)

NodeCount(e) == Cardinality({ i \in 1..Len(e) : ~example_is_edge(e[i]) })

NodeAfterEdge(e) ==
  \E i \in 1..Len(e), j \in 1..Len(e) :
    i < j /\ example_is_edge(e[i]) /\ ~example_is_edge(e[j])

EdgesWithoutNodes(e) == NodeCount(e) = 0 /\ \E i \in 1..Len(e) : example_is_edge(e[i])

EndpointTooLarge(e) ==
  \E i \in 1..Len(e) :
    example_is_edge(e[i]) /\ \E j \in 1..Len(e[i].costs) : e[i].costs[j] > NodeCount(e)

StructViolation(e) == NodeAfterEdge(e) \/ EdgesWithoutNodes(e) \/ EndpointTooLarge(e)

\* node ids start at one (the example format)
IdsStartAtOne(e) ==
  \A i \in 1..Len(e) :
    example_is_edge(e[i]) => \A j \in 1..Len(e[i].costs) : e[i].costs[j] >= 1

Augmented(x) == x.nbr # << >> \/ x.indices # << node_namespace >>

Labeled(n) == Len(Ec(ec, n).costs) > 0 /\ Ec(ec, n).costs[1] \in 1..K

RECURSIVE SumCells(_, _)
SumCells(cm, c) == IF c >= (K + 1) * (K + 1) THEN 0 ELSE cm[c] + SumCells(cm, c + 1)

\* C6: after a run, confusion[t][p] is the number of labeled nodes with true label t
\* and final prediction p, and the cells sum to the number of labeled nodes: nodes
\* without a true label leave the matrix alone.
C6_ConfusionCountsLabeled ==
  phase = "done" =>
    /\ \A t \in 1..K, p \in 1..K :
         confusion_matrix[IDX(t, p)] =
           Cardinality({ n \in Nodes : Labeled(n) /\ Ec(ec, n).costs[1] = t /\ pred[n] = p })
    /\ SumCells(confusion_matrix, 0) = Cardinality({ n \in Nodes : Labeled(n) })

TrueC(k) == sum_row(confusion_matrix, k, 1)

PredC(k) == sum_col(confusion_matrix, k, 1)

\* F1 of label k as 2 * correct / (true + predicted)
F1(k) ==
  IF confusion_matrix[IDX(k, k)] > 0
  THEN Frac(2 * confusion_matrix[IDX(k, k)], TrueC(k) + PredC(k))
  ELSE << 0, 1 >>

RECURSIVE SumF1(_)
SumF1(k) ==
  IF k > K THEN << 0, 1 >>
  ELSE FAdd(IF TrueC(k) > 0 THEN F1(k) ELSE << 0, 1 >>, SumF1(k + 1))

MacroF1 == FDiv(SumF1(1), << Cardinality({ k \in 1..K : TrueC(k) > 0 }), 1 >>)

\* C7: when some label has a true occurrence, macro_f is the average of F1(k) over
\* exactly the labels k with trueC(k) > 0, F1(k) being 2*confusion[k][k]/(trueC+predC)
\* when confusion[k][k] > 0 and 0 otherwise; the reported loss is 1 minus it, in [0, 1].
C7_MacroF ==
  (phase = "done" /\ \E k \in 1..K : TrueC(k) > 0) =>
     /\ macro_f(confusion_matrix) = MacroF1
     /\ loss = << FAdd(<< 1, 1 >>, << -MacroF1[1], MacroF1[2] >>) >>
     /\ FLeq(<< 0, 1 >>, loss[1])
     /\ FLeq(loss[1], << 1, 1 >>)

\* a label without true occurrence beside one that is partly right
C7_Witness ==
  /\ phase = "done"
  /\ \E k \in 1..K : TrueC(k) = 0 /\ PredC(k) > 0
  /\ \E k \in 1..K : confusion_matrix[IDX(k, k)] > 0 /\ TrueC(k) # PredC(k)
  /\ loss # << << 0, 1 >> >>
  /\ loss # << << 1, 1 >> >>

\* the positions of an edge's endpoint list that contribute to node n's histogram
Contributors(costs, n) == { j \in 1..Len(costs) : costs[j] - 1 # n }

BucketCount(costs, n, k) ==
  Cardinality({ j \in Contributors(costs, n) : pred[costs[j] - 1] - 1 = k })

RECURSIVE WeightedValues(_, _, _, _)
WeightedValues(costs, n, v, k) ==
  IF k > K THEN << >>
  ELSE (IF BucketCount(costs, n, k) > 0 THEN << v * BucketCount(costs, n, k) >> ELSE << >>)
       \o WeightedValues(costs, n, v, k + 1)

\* the values the claim has one feature of one edge inject into node n
InjectedValues(costs, n, v) ==
  LET c == Cardinality(Contributors(costs, n))
  IN IF c = 0 THEN << >>
     ELSE IF c = 1 THEN << v >>
     ELSE WeightedValues(costs, n, v, 0)

RECURSIVE SumSeq(_)
SumSeq(q) == IF q = << >> THEN 0 ELSE Head(q) + SumSeq(Tail(q))

\* the neighbour features of node n from position at on, against edge k (of adj[n])
\* and its feature j on
RECURSIVE InjectedAsClaimed(_, _, _, _, _)
InjectedAsClaimed(vals, at, n, k, j) ==
  IF k > Len(adj[n]) THEN at = Len(vals) + 1
  ELSE LET edge == Ec(ec, adj[n][k])
       IN IF j > Len(edge.feats) THEN InjectedAsClaimed(vals, at, n, k + 1, 1)
          ELSE LET v == edge.feats[j].x
                   c == Cardinality(Contributors(edge.costs, n))
                   want == InjectedValues(edge.costs, n, v)
                   got == SubSeq(vals, at, at + Len(want) - 1)
               IN /\ at + Len(want) - 1 <= Len(vals)
                  /\ got = want
                  /\ c = 1 => got = << v >>
                  /\ c >= 2 => SumSeq(got) = v * c
                  /\ InjectedAsClaimed(vals, at + Len(want), n, k, j + 1)

\* C8: with structural features on, each feature (value v) of each incident edge
\* injects one feature of value v when one other endpoint contributes, and when c >= 2
\* contribute one feature per nonzero histogram bucket, of value v times the bucket's
\* count, the values summing to v * c.
C8_SingleAndGroupEncoding ==
  (phase = "running" /\ pc = "predict" /\ add_features /\ use_structure) =>
     LET x == Ec(ec, CurNode)
     IN InjectedAsClaimed([i \in 1..Len(x.nbr) |-> x.nbr[i].x], 1, CurNode, 1, 1)

\* an edge with one contributing endpoint and an edge with two that were predicted
\* different labels
C8_Witness ==
  /\ phase = "running" /\ pc = "predict" /\ add_features /\ use_structure
  /\ \E k \in 1..Len(adj[CurNode]) :
       Cardinality(Contributors(Ec(ec, adj[CurNode][k]).costs, CurNode)) = 1
  /\ \E k \in 1..Len(adj[CurNode]) :
       LET costs == Ec(ec, adj[CurNode][k]).costs
       IN /\ Cardinality(Contributors(costs, CurNode)) >= 2
          /\ Cardinality({ b \in 0..K : BucketCount(costs, CurNode, b) > 0 }) >= 2

VisitedNodes == { visited[i][2] : i \in 1..Len(visited) }

\* C9: every run starts with every pred[n] at the sentinel K+1 (a later run over the
\* same episode too), a prediction is only ever there for a node this run predicted,
\* and when the run completes every pred[n] is in 1..K.
C9_PredResetEveryRun ==
  /\ phase = "running" =>
       \A n \in Nodes : (pred[n] = K + 1) <=> (n \notin VisitedNodes)
  /\ (phase = "running" /\ visited = << >>) => \A n \in Nodes : pred[n] = K + 1
  /\ phase = "done" => \A n \in Nodes : pred[n] \in 1..K

\* the start of a second run: the first run's predictions were there and are gone
C9_Witness ==
  /\ phase = "running"
  /\ runs = 2
  /\ visited = << >>
  /\ N >= 2
  /\ \A n \in Nodes : pred[n] = K + 1

AugmentedNodes == { n \in Nodes : Augmented(Ec(ec, n)) }

\* C10: augment and revert are paired around each prediction: at most one node is
\* augmented at any time, when the prediction of node n is requested no other node is,
\* the next node's augmentation starts from a state where none is, and none is at the
\* end of a pass or of the run.
C10_AugmentRevertPaired ==
  phase \in {"ready", "running", "done", "fatal"} =>
    /\ Cardinality(AugmentedNodes) <= 1
    /\ (phase = "running" /\ pc \in {"predict", "revert"}) =>
         /\ AugmentedNodes \subseteq {CurNode}
         /\ add_features <=> CurNode \in AugmentedNodes
    /\ (phase \in {"ready", "done"} \/ (phase = "running" /\ pc \in {"top", "tail"})) =>
         AugmentedNodes = {}

C10_Witness ==
  /\ phase = "running"
  /\ pc = "revert"
  /\ loop = 1
  /\ add_features
  /\ Ec(ec, CurNode).nbr # << >>
  /\ N >= 2

\* the configured number of passes: the option's value, 2 when it is not given
ConfiguredLoops == IF vm.loops = << >> THEN 2 ELSE vm.loops[1]

EffectiveLoops == IF ConfiguredLoops >= 1 THEN ConfiguredLoops ELSE 1

\* C11: the number of passes is max(1, configured num_loops), default 2.  With
\* separate learners configured and at least 2 passes, every prediction of pass i goes
\* to learner id i, which is below the number of learners registered (num_loops);
\* otherwise no learner id is ever selected.
C11_LearnerPerPass ==
  /\ num_loops = EffectiveLoops
  /\ (vm.loops = << >>) => num_loops = 2
  /\ IF vm.separate /\ EffectiveLoops >= 2
     THEN /\ num_learners = << num_loops >>
          /\ (phase = "running" /\ pc = "revert") =>
               /\ learner_id = Last(visited)[1]
               /\ learner_id = loop
               /\ learner_id >= 0
               /\ learner_id < num_learners[1]
     ELSE /\ learner_id = -1
          /\ num_learners = << >>

\* a prediction of the second pass routed to learner 1
C11_Witness ==
  /\ phase = "running"
  /\ pc = "revert"
  /\ vm.separate
  /\ loop = 1
  /\ learner_id = 1
  /\ num_learners = << 2 >>

\* node n is an endpoint of the record of index i
IsEndpoint(n, i) == \E j \in 1..Len(Ec(ec, i).costs) : Ec(ec, i).costs[j] - 1 = n

\* C12: after a successful setup adj[n] holds the edge index i if and only if node n is
\* an endpoint of edge record i, and adj[n] is strictly increasing: no index twice, also
\* when the edge lists n in non-consecutive positions.
C12_AdjacencyIsIncidence ==
  phase = "ready" =>
    \A n \in Nodes :
      /\ \A i \in 0..(Len(ec) - 1) :
           (\E k \in 1..Len(adj[n]) : adj[n][k] = i) <=> (i >= N /\ IsEndpoint(n, i))
      /\ \A k \in 1..(Len(adj[n]) - 1) : adj[n][k] < adj[n][k + 1]

\* a node listed first and third by one of its two edges
C12_Witness ==
  /\ phase = "ready"
  /\ \E n \in Nodes :
       /\ Len(adj[n]) = 2
       /\ \E k \in 1..2 :
            LET costs == Ec(ec, adj[n][k]).costs
            IN Len(costs) = 3 /\ costs[1] - 1 = n /\ costs[3] - 1 = n /\ costs[2] - 1 # n

\* two nodes share a hyperedge
SharesEdge(a, b) == \E i \in N..(Len(ec) - 1) : IsEndpoint(a, i) /\ IsEndpoint(b, i)

\* the nodes of edge record i
EdgeNodes(i) == { Ec(ec, i).costs[j] - 1 : j \in 1..Len(Ec(ec, i).costs) }

\* S with the nodes of every edge that touches it, k times over
RECURSIVE Grow(_, _)
Grow(S, k) ==
  IF k = 0 THEN S
  ELSE Grow(S \cup UNION { EdgeNodes(i) : i \in { h \in N..(Len(ec) - 1) : EdgeNodes(h) \cap S # {} } },
            k - 1)

\* the connected component of node n
Component(n) == Grow({n}, N)

Lowest(S) == CHOOSE x \in S : \A y \in S : x <= y

\* the position of node n in the traversal order
Pos(n) == CHOOSE j \in 1..Len(bfs) : bfs[j] = n

\* C13: node 0 is first in the traversal order; the nodes of each connected component
\* (adjacent = sharing a hyperedge) occupy one contiguous block, which begins with the
\* lowest node of the component; the blocks come in increasing order of that node; and
\* every node that is not the first of its block comes after a node it shares an edge with.
C13_ComponentBlocks ==
  (phase = "ready" /\ N >= 1) =>
    /\ bfs[1] = 0
    /\ \A n \in Nodes : \E j \in 1..Len(bfs) : bfs[j] = n
    /\ \A comp \in { [n \in Nodes |-> Component(n)] } :
       \A low \in { [n \in Nodes |-> Lowest(comp[n])] }, pos \in { [n \in Nodes |-> Pos(n)] } :
          /\ \A a \in Nodes, b \in Nodes, c \in Nodes :
               (b \in comp[a] /\ pos[a] < pos[c] /\ pos[c] < pos[b]) => c \in comp[a]
          /\ \A n \in Nodes : pos[low[n]] <= pos[n]
          /\ \A a \in Nodes, b \in Nodes : low[a] < low[b] => pos[a] < pos[b]
          /\ \A n \in Nodes :
               n # low[n] =>
                 \E m \in Nodes : m # n /\ SharesEdge(m, n) /\ pos[m] < pos[n]

\* nodes 0 and 2 joined, node 1 alone: the order is 0, 2, 1
C13_Witness ==
  /\ phase = "ready"
  /\ N = 3
  /\ Component(0) = {0, 2}
  /\ Component(1) = {1}
  /\ bfs = << 0, 2, 1 >>

\* the other nodes on the edges of adj[n]
Neighbors(n) == { m \in Nodes : m # n /\ SharesEdge(m, n) }

VisitedIn(i, m) == \E j \in 1..Len(visited) : visited[j] = << i, m >>

\* the predictions the claim has the augmentation of a node read: the sentinel for a
\* node without a prediction in this run, else the label it was last predicted
MostRecent == [m \in Nodes |-> IF predicted[m] = << >> THEN K + 1 ELSE predicted[m][2]]

\* C14: with structural features on, when node n is augmented in pass 0 a neighbor m
\* counts in the sentinel bucket K iff m comes later than n in the traversal order, and
\* otherwise counts with the label predicted for it earlier in this pass; in a pass
\* i >= 1 no neighbor counts in bucket K and each counts with its most recent prediction,
\* of pass i if already visited in pass i, else of pass i - 1.
C14_SentinelBucket ==
  (phase = "running" /\ pc = "predict" /\ add_features /\ use_structure) =>
    LET n == CurNode
    IN /\ \A m \in Neighbors(n) :
            IF loop = 0
            THEN /\ (pred[m] - 1 = K) <=> (Pos(m) > Pos(n))
                 /\ Pos(m) < Pos(n) =>
                      /\ predicted[m] # << >>
                      /\ predicted[m][1] = 0
                      /\ pred[m] = predicted[m][2]
            ELSE /\ pred[m] - 1 # K
                 /\ predicted[m] # << >>
                 /\ pred[m] = predicted[m][2]
                 /\ predicted[m][1] = IF VisitedIn(loop, m) THEN loop ELSE loop - 1
       /\ Ec(ec, n).nbr =
            add_edges([thrown |-> FALSE] @@ Example(Ec(ec, n).costs, Ec(ec, n).feats),
                      ec, adj[n], 1, n, MostRecent, TRUE).nbr

\* in the second pass, a node between a neighbor already predicted in this pass and one
\* whose prediction is of the first pass, the two predictions differing
C14_Witness ==
  /\ phase = "running" /\ pc = "predict" /\ add_features /\ use_structure
  /\ loop = 1
  /\ \E m \in Neighbors(CurNode), q \in Neighbors(CurNode) :
       /\ predicted[m][1] = 1
       /\ predicted[q][1] = 0
       /\ pred[m] # pred[q]

\* the edges of adj[n] (as positions) with a contributing neighbor of n
ContributingEdges(n) ==
  { k \in 1..Len(adj[n]) : Contributors(Ec(ec, adj[n][k]).costs, n) # {} }

RECURSIVE FeatureCount(_, _, _)
FeatureCount(n, S, k) ==
  IF k > Len(adj[n]) THEN 0
  ELSE (IF k \in S THEN Len(Ec(ec, adj[n][k]).feats) ELSE 0) + FeatureCount(n, S, k + 1)

\* C15: an incident edge with no contributing neighbor (every endpoint is n itself)
\* injects no feature into n's neighbor namespace, with structural features on or off:
\* a node with only such edges gets an empty neighbor namespace, and with structural
\* features off the features injected are one per feature of the other edges.
C15_ZeroEdgeInjectsNothing ==
  (phase = "running" /\ pc = "predict" /\ add_features) =>
    LET n == CurNode
    IN /\ ContributingEdges(n) = {} => Ec(ec, n).nbr = << >>
       /\ ~use_structure =>
            Len(Ec(ec, n).nbr) = FeatureCount(n, ContributingEdges(n), 1)

\* the records the first loop of setup reaches: all of them, or those before the
\* node record that follows an edge record
Scanned(e) ==
  { i \in 1..Len(e) :
      \A j \in 1..i : ~example_is_edge(e[j]) => \A h \in 1..(j - 1) : ~example_is_edge(e[h]) }

\* the scanned node records that carry the label k
ScannedLabeled(e, k) ==
  { i \in Scanned(e) : ~example_is_edge(e[i]) /\ e[i].costs # << >> /\ e[i].costs[1] = k }

RECURSIVE SumCounts(_, _)
SumCounts(c, k) == IF k > K THEN 0 ELSE c[k] + SumCounts(c, k + 1)

PriorsStep ==
  /\ \A k \in 0..K : true_counts'[k] >= true_counts[k]
  /\ true_counts_total' >= true_counts_total
  /\ IF phase = "loaded" /\ phase' # "loaded"
     THEN \A k \in 0..K :
            true_counts'[k] = true_counts[k] + Cardinality(ScannedLabeled(ec, k))
     ELSE /\ true_counts' = true_counts
          /\ true_counts_total' = true_counts_total

\* C16: over any sequence of episodes and runs of one task instance the label-prior
\* counters are never reset and never decrease; a setup adds 1 to true_counts[label] for
\* each node record with a label that it scans and nothing else, no other operation
\* changes a counter, and true_counts_total is always the sum of true_counts[0..K],
\* after a setup that threw too.
C16_PriorsAccumulate ==
  /\ [](true_counts_total = SumCounts(true_counts, 0))
  /\ [][PriorsStep]_vars

\* a second episode whose setup threw after it counted a node, on top of the first's
C16_Witness ==
  /\ episodes = 2
  /\ phase = "fatal"
  /\ N = 1
  /\ true_counts[2] >= 3
  /\ true_counts_total >= K + 1 + 3

\* the episode in hand is the first episode of the task instance, handed again
FirstEpisodeAgain == episodes >= 2 /\ first # << >> /\ ec = first.ec

\* C17: but for the label priors nothing carries over between episodes: setup and run
\* on an episode that follows others give the node and edge counts, adjacency, traversal
\* order, initial predictions and, for the same answers of the predictor, the confusion
\* matrix and the loss that they give on it as the first episode; the confusion matrix
\* after a run counts only the nodes of that run.
C17_NothingCarriesOver ==
  /\ (FirstEpisodeAgain /\ phase = "ready") =>
       /\ N = first.N
       /\ E = first.E
       /\ adj = first.adj
       /\ bfs = first.bfs
       /\ pred = first.pred
  /\ (FirstEpisodeAgain /\ phase = "done" /\ first.run # << >>) =>
       (pred = first.run[1].pred =>
          /\ confusion_matrix = first.run[1].confusion_matrix
          /\ loss = first.run[1].loss)
  /\ phase = "done" => SumCells(confusion_matrix, 0) <= N

\* C18: whenever setup completes without the fatal error, every endpoint id of every
\* edge record is in 1..N, so that the index id - 1 used on adj, pred and touched is in
\* 0..N-1: an id of 0 does not pass validation.
C18_EndpointsReferToNodes ==
  phase \notin {"loaded", "fatal"} =>
    \A i \in N..(Len(ec) - 1) :
      \A j \in 1..Len(Ec(ec, i).costs) : Ec(ec, i).costs[j] \in 1..N

\* C19: after every successful setup, for every N >= 0, the traversal order has exactly
\* N entries, all in 0..N-1, and pred has exactly N entries; for the empty episode the
\* order is empty and the run that follows requests no prediction.
C19_OrderHasNEntries ==
  /\ phase = "ready" =>
       /\ Len(bfs) = N
       /\ \A j \in 1..Len(bfs) : bfs[j] \in 0..(N - 1)
       /\ DOMAIN pred = 0..(N - 1)
  /\ (phase \in {"ready", "running", "done"} /\ ec = << >>) =>
       /\ bfs = << >>
       /\ visited = << >>

=============================================================================
